---- MODULE Spec2Model ----
(***************************************************************************)
(* Schema comparator (test-clients/python/src/comparator.py), the          *)
(* cross-client runner (scripts/compare_results.py), the import/export     *)
(* test runner (test-clients/python/src/test_runner.py), the baseline      *)
(* generator (schema-generator/src/generator.py) and the version check     *)
(* (version-tracking/check_versions.py).                                   *)
(*                                                                         *)
(* A configuration document is a function from the top-level keys it has   *)
(* to their values.  Scalars are strings, numbers and booleans, the        *)
(* `properties` value is a sequence of property descriptors (functions),   *)
(* `vectorConfig` is an insertion-ordered mapping, kept as a sequence of   *)
(* <<key, value>> items with distinct keys, and `replicationConfig` and    *)
(* `invertedIndexConfig` are nested mappings of scalars.                   *)
(***************************************************************************)
EXTENDS Integers, Sequences, FiniteSets, TLC

VARIABLES
    pc,                 \* position of the call under study
    schema,             \* normalize_schema: its argument
    normalized,         \* normalize_schema(schema)
    renormalized,       \* normalize_schema(normalized)
    baseline,           \* compare_schemas: the baseline document
    exported,           \* compare_schemas: the exported document
    result,             \* compare_schemas(baseline, exported)
    baselines,          \* compare_all_schemas: schema name -> baseline file
    exported_schemas,   \* compare_all_schemas: client -> schema name -> exported file
    schema_order,       \* iteration order of baselines.items()
    client_order,       \* iteration order of exported.items()
    si,                 \* position of the outer loop in schema_order
    ci,                 \* position of the inner loop in client_order
    loaded,             \* the baseline file loaded for the current schema
    results,            \* the list compare_all_schemas builds
    outcomes,           \* generate_summary and the report renderers: the outcome list
    summary,            \* generate_summary(outcomes)
    markdown,           \* generate_markdown_report(summary, outcomes)
    comparison_report,  \* SchemaComparator.generate_comparison_report(outcomes)
    exit_code,          \* main: the exit code of the process
    client,             \* TestRunner.client: connected or None
    baseline_path,      \* run_test: the file at baseline_path
    faults,             \* the backend and file calls that raise
    collections,        \* the collections of the Weaviate instance
    collection_name,    \* run_test: the name import_schema returned
    output_file,        \* run_test: the exported config.json was written
    test_result,        \* run_test: its result dictionary
    cleanup_requested,  \* generate_schema: its cleanup argument
    generated,          \* generate_schema: the path it returned or the exception it raised
    versions_file,      \* check_versions main: the content of the versions file, None when missing
    in_place,           \* check_versions main: no --output, the versions file is rewritten
    output_content,     \* check_versions main: the content of the --output file
    registry,           \* what the lookup of the package gives on PyPI and on npm
    versions,           \* check_versions: the loaded versions file
    versions_order,     \* iteration order of versions['clients'].items()
    vi,                 \* position of the loop in versions_order
    updates             \* check_versions: the mapping it builds

normalizeVars == <<schema, normalized, renormalized>>

compareVars == <<baseline, exported, result>>

runnerVars ==
    <<baselines, exported_schemas, schema_order, client_order, si, ci, loaded, results>>

reportVars == <<outcomes, summary, markdown, comparison_report>>

mainVars == <<exit_code>>

testVars == <<client, baseline_path, faults, collections, collection_name, output_file, test_result>>

genVars == <<cleanup_requested, generated>>

versionVars == <<versions_file, in_place, output_content, registry, versions, versions_order, vi, updates>>

vars == <<pc, normalizeVars, compareVars, runnerVars, reportVars, mainVars, testVars, genVars, versionVars>>

----------------------------------------------------------------------------
(* Bounds of the input documents *)

MaxProps == 2

----------------------------------------------------------------------------
(* Python dict and string primitives *)

NoDoc == [none |-> TRUE]

\* Code-point order of the strings used as sort keys (str.__lt__).
CodePointOrder == <<"", "a", "b", "default", "title">>

StrRank(s) == CHOOSE r \in 1..Len(CodePointOrder) : CodePointOrder[r] = s

StrLeq(s, t) == StrRank(s) <= StrRank(t)

\* dict.pop(key, None): the mapping without `key`.
pop(d, key) == [k \in (DOMAIN d) \ {key} |-> d[k]]

\* d[key] = value
setitem(d, key, value) ==
    [k \in (DOMAIN d) \cup {key} |-> IF k = key THEN value ELSE d[k]]

\* sorted(items, key = first component): Python's sort is stable, so an item
\* goes behind every item already placed whose key is not greater.
\* An unstable sort: an item goes in front of the items with an equal key.
SortedInsertUnstable(placed, item) ==
    LET pos == Cardinality({q \in 1..Len(placed) :
                   StrLeq(placed[q][1], item[1]) /\ placed[q][1] # item[1]})
    IN  SubSeq(placed, 1, pos) \o <<item>> \o SubSeq(placed, pos + 1, Len(placed))

SortedInsert(placed, item) ==
    LET pos == Cardinality({q \in 1..Len(placed) : StrLeq(placed[q][1], item[1])})
    IN  SubSeq(placed, 1, pos) \o <<item>> \o SubSeq(placed, pos + 1, Len(placed))

RECURSIVE sorted(_)
sorted(items) ==
    IF items = << >> THEN << >>
    ELSE SortedInsert(sorted(SubSeq(items, 1, Len(items) - 1)), items[Len(items)])

\* key = lambda p: p.get('name', '')
PropertyKey(p) == IF "name" \in DOMAIN p THEN p["name"] ELSE ""

\* sorted(properties, key = lambda p: p.get('name', ''))
SortProperties(properties) ==
    LET keyed == [q \in 1..Len(properties) |-> <<PropertyKey(properties[q]), properties[q]>>]
        placed == sorted(keyed)
    IN  [q \in 1..Len(placed) |-> placed[q][2]]

\* dict(sorted(vectorConfig.items())): keys are distinct, so the items are
\* ordered by key alone.
SortVectorConfig(vectorConfig) == sorted(vectorConfig)

----------------------------------------------------------------------------
(* SchemaComparator class attributes *)

\* The dotted paths of DEFAULT_VALUES, as the nested mapping they address.
DEFAULT_VALUES ==
    [ replicationConfig |-> [factor |-> 1],
      invertedIndexConfig |-> [ indexNullState |-> FALSE,
                                indexPropertyLength |-> FALSE,
                                indexTimestamps |-> FALSE ] ]

\* The top-level keys of IGNORE_FIELDS.
IGNORE_FIELDS == {"creationTimeUnix", "lastUpdateTimeUnix"}

----------------------------------------------------------------------------
(* SchemaComparator.normalize_schema *)

\* json.loads(json.dumps(schema)): a JSON document survives the round trip
\* value for value; the copy shares nothing with its source.
DeepCopy(d) == d

\* Only the creation timestamp is dropped.
RemoveCreationTimeOnly(d) == pop(d, "creationTimeUnix")

RemoveTimestamps(d) == pop(pop(d, "creationTimeUnix"), "lastUpdateTimeUnix")

\* The alias is left as it is.
ResolveAliasNever(d) == d

\* When both keys are present the value of `class` wins.
ResolveAliasPreferClass(d) ==
    IF "class" \in DOMAIN d
        THEN setitem(pop(d, "class"), "name", d["class"])
        ELSE d

ResolveAlias(d) ==
    IF "class" \in DOMAIN d /\ "name" \notin DOMAIN d
        THEN setitem(pop(d, "class"), "name", d["class"])
    ELSE IF "class" \in DOMAIN d /\ "name" \in DOMAIN d
        THEN pop(d, "class")
    ELSE d

SortPropertiesByName(d) ==
    IF "properties" \in DOMAIN d
        THEN setitem(d, "properties", SortProperties(d["properties"]))
        ELSE d

SortVectorConfigKeys(d) ==
    IF "vectorConfig" \in DOMAIN d
        THEN setitem(d, "vectorConfig", SortVectorConfig(d["vectorConfig"]))
        ELSE d

normalize_schema(d) ==
    SortVectorConfigKeys(SortPropertiesByName(ResolveAlias(RemoveTimestamps(DeepCopy(d)))))

\* `normalized = schema`: the working document is the argument itself.
CopyIsAlias == FALSE

\* json.loads(json.dumps(schema)) builds new objects: the working document
\* shares nothing with the argument.
CopyIsFresh == TRUE

\* The caller's document once normalize_schema is over: every pop and item
\* assignment goes to the working document, so the argument follows them only
\* when it is that same object.
ArgumentAfterNormalize(d) == IF CopyIsFresh THEN d ELSE normalize_schema(d)

----------------------------------------------------------------------------
(* DeepDiff(t1, t2, ignore_order=True, report_repetition=True) on normalized
   documents.  The report is the set of its entries, each the report category
   and the path of the entry. *)

Entry(kind, path) == [kind |-> kind, path |-> path]

KeyPath(path, k) == path \o "['" \o k \o "']"

IndexPath(path, q) == path \o "[" \o ToString(q - 1) \o "]"

\* Scalar leaves: reported when the values are not equal.
DiffScalar(path, v1, v2) ==
    IF v1 # v2 THEN {Entry("values_changed", path)} ELSE {}

\* Only the keys both sides have are looked at.
DiffMappingCommonKeys(path, m1, m2) ==
    UNION {DiffScalar(KeyPath(path, k), m1[k], m2[k]) : k \in (DOMAIN m1) \cap (DOMAIN m2)}

\* Mappings of scalars: keys of one side only, then the common keys.
DiffMapping(path, m1, m2) ==
    {Entry("dictionary_item_removed", KeyPath(path, k)) : k \in (DOMAIN m1) \ (DOMAIN m2)}
    \cup {Entry("dictionary_item_added", KeyPath(path, k)) : k \in (DOMAIN m2) \ (DOMAIN m1)}
    \cup UNION {DiffScalar(KeyPath(path, k), m1[k], m2[k]) : k \in (DOMAIN m1) \cap (DOMAIN m2)}

Occurrences(items, x) == Cardinality({q \in 1..Len(items) : items[q] = x})

FirstIndex(items, x) ==
    CHOOSE q \in 1..Len(items) : items[q] = x /\ \A r \in 1..(q - 1) : items[r] # x

\* ignore_order = False: items are compared position by position.
DiffIterableOrdered(path, t1, t2) ==
    {Entry("values_changed", IndexPath(path, q)) :
        q \in {r \in 1..Len(t1) : r <= Len(t2) /\ t1[r] # t2[r]}}
    \cup {Entry("iterable_item_removed", IndexPath(path, q)) : q \in (Len(t2) + 1)..Len(t1)}
    \cup {Entry("iterable_item_added", IndexPath(path, q)) : q \in (Len(t1) + 1)..Len(t2)}

\* report_repetition = False: an item of both sides is never reported,
\* however many times each side repeats it.
DiffIterableNoRepetition(path, t1, t2) ==
    {Entry("iterable_item_removed", IndexPath(path, q)) :
        q \in {r \in 1..Len(t1) : Occurrences(t2, t1[r]) = 0}}
    \cup {Entry("iterable_item_added", IndexPath(path, q)) :
        q \in {r \in 1..Len(t2) : Occurrences(t1, t2[r]) = 0}}

\* Sequences with ignore_order: items are matched by content, whatever their
\* position; an item of one side only is reported at its index, and with
\* report_repetition an item of both sides is reported when it is repeated a
\* different number of times.
DiffIterable(path, t1, t2) ==
    {Entry("iterable_item_removed", IndexPath(path, q)) :
        q \in {r \in 1..Len(t1) : Occurrences(t2, t1[r]) = 0}}
    \cup {Entry("iterable_item_added", IndexPath(path, q)) :
        q \in {r \in 1..Len(t2) : Occurrences(t1, t2[r]) = 0}}
    \cup {Entry("repetition_change", IndexPath(path, FirstIndex(t1, t1[q]))) :
        q \in {r \in 1..Len(t1) : /\ Occurrences(t2, t1[r]) > 0
                                  /\ Occurrences(t2, t1[r]) # Occurrences(t1, t1[r])}}

\* The mapping an insertion-ordered mapping stands for: DeepDiff compares
\* mappings key by key, whatever the order of their keys.
AsMapping(items) ==
    [k \in {items[q][1] : q \in 1..Len(items)} |->
        items[CHOOSE q \in 1..Len(items) : items[q][1] = k][2]]

DiffValue(path, k, v1, v2) ==
    CASE k = "properties" -> DiffIterable(path, v1, v2)
      [] k = "vectorConfig" -> DiffMapping(path, AsMapping(v1), AsMapping(v2))
      [] k \in {"replicationConfig", "invertedIndexConfig"} -> DiffMapping(path, v1, v2)
      [] OTHER -> DiffScalar(path, v1, v2)

\* Keys the second document adds are not reported.
DeepDiffNoAdded(t1, t2) ==
    {Entry("dictionary_item_removed", KeyPath("root", k)) : k \in (DOMAIN t1) \ (DOMAIN t2)}
    \cup UNION {DiffValue(KeyPath("root", k), k, t1[k], t2[k]) : k \in (DOMAIN t1) \cap (DOMAIN t2)}

\* The comparison stops at the first entry it finds.
DeepDiffFirstOnly(t1, t2) ==
    LET every ==
            {Entry("dictionary_item_removed", KeyPath("root", k)) : k \in (DOMAIN t1) \ (DOMAIN t2)}
            \cup {Entry("dictionary_item_added", KeyPath("root", k)) : k \in (DOMAIN t2) \ (DOMAIN t1)}
            \cup UNION {DiffValue(KeyPath("root", k), k, t1[k], t2[k]) : k \in (DOMAIN t1) \cap (DOMAIN t2)}
    IN  IF every = {} THEN {} ELSE {CHOOSE e \in every : TRUE}

DeepDiff(t1, t2) ==
    {Entry("dictionary_item_removed", KeyPath("root", k)) : k \in (DOMAIN t1) \ (DOMAIN t2)}
    \cup {Entry("dictionary_item_added", KeyPath("root", k)) : k \in (DOMAIN t2) \ (DOMAIN t1)}
    \cup UNION {DiffValue(KeyPath("root", k), k, t1[k], t2[k]) : k \in (DOMAIN t1) \cap (DOMAIN t2)}

----------------------------------------------------------------------------
(* SchemaComparator.compare_schemas *)

NormalizeBaseline(d) == normalize_schema(d)

\* The exported document is compared as it was loaded.
ExportedAsLoaded(d) == d

NormalizeExported(d) == normalize_schema(d)

compare_schemas(base, exp) ==
    LET diff == DeepDiff(NormalizeBaseline(base), NormalizeExported(exp))
    IN  IF diff = {}
            THEN [identical |-> TRUE, differences |-> {}]
            ELSE [identical |-> FALSE, differences |-> diff]

----------------------------------------------------------------------------
(* Input documents *)

\* An optional value: << >> when the key is absent, <<v>> when it is v.
Opt(S) == {<< >>} \cup {<<v>> : v \in S}

CollectionNames == {"T", "U"}

PropertySet ==
    { [dataType |-> "text"],
      [name |-> "a", dataType |-> "text"],
      [name |-> "a", dataType |-> "int"],
      [name |-> "b", dataType |-> "text"] }

SeqsUpTo(S, n) == UNION {[1..m -> S] : m \in 0..n}

PropertyLists == SeqsUpTo(PropertySet, MaxProps)

VectorNames == {"default", "title"}

VectorConfigs ==
    {vc \in SeqsUpTo({<<k, "hnsw">> : k \in VectorNames}, Cardinality(VectorNames)) :
        \A p, q \in 1..Len(vc) : p # q => vc[p][1] # vc[q][1]}

ReplicationConfigs == UNION {[K -> {1, 2}] : K \in SUBSET {"factor"}}

InvertedIndexKeys == {"indexNullState", "indexPropertyLength", "indexTimestamps"}

InvertedIndexConfigs == UNION {[K -> BOOLEAN] : K \in SUBSET InvertedIndexKeys}

TopKeys ==
    {"class", "name", "creationTimeUnix", "lastUpdateTimeUnix", "properties",
     "vectorConfig", "replicationConfig", "invertedIndexConfig"}

\* The document with exactly the keys whose option is present.
Document(opts) ==
    [k \in {x \in TopKeys : opts[x] # << >>} |-> opts[k][1]]

\* Every option of every top-level key.
AllOptions ==
    [ class |-> Opt(CollectionNames),
      name |-> Opt(CollectionNames),
      creationTimeUnix |-> Opt({123}),
      lastUpdateTimeUnix |-> Opt({456}),
      properties |-> Opt(PropertyLists),
      vectorConfig |-> Opt(VectorConfigs),
      replicationConfig |-> Opt(ReplicationConfigs),
      invertedIndexConfig |-> Opt(InvertedIndexConfigs) ]

\* No key at all, and a typical stored schema (properties in creation order).
Bare == [k \in TopKeys |-> << >>]

Typical ==
    [ class |-> << >>,
      name |-> <<"T">>,
      creationTimeUnix |-> << >>,
      lastUpdateTimeUnix |-> << >>,
      properties |-> << << [name |-> "b", dataType |-> "text"],
                           [name |-> "a", dataType |-> "text"] >> >>,
      vectorConfig |-> << << <<"title", "hnsw">>, <<"default", "hnsw">> >> >>,
      replicationConfig |-> << [factor |-> 1] >>,
      invertedIndexConfig |-> << [indexNullState |-> FALSE] >> ]

\* The documents that take every option on the keys of `focus` and are as
\* `context` on the other keys.
Documents(focus, context) ==
    LET S == [k \in TopKeys |-> IF k \in focus THEN AllOptions[k] ELSE {context[k]}]
    IN  {Document(o) :
            o \in [ class : S["class"],
                    name : S["name"],
                    creationTimeUnix : S["creationTimeUnix"],
                    lastUpdateTimeUnix : S["lastUpdateTimeUnix"],
                    properties : S["properties"],
                    vectorConfig : S["vectorConfig"],
                    replicationConfig : S["replicationConfig"],
                    invertedIndexConfig : S["invertedIndexConfig"] ]}

\* Documents handed to normalize_schema.
Schemas ==
    Documents(TopKeys \ {"invertedIndexConfig"}, Bare)

\* Documents handed to compare_schemas: one group of keys takes every option,
\* in no context or in the typical one.
KeyGroups ==
    { {"class", "name", "creationTimeUnix", "lastUpdateTimeUnix"},
      {"properties"},
      {"vectorConfig"},
      {"replicationConfig", "invertedIndexConfig"} }

\* Documents whose properties repeat descriptors: every list, one longer than
\* the lists above, made of the two text descriptors a and b and holding both,
\* such as [a, a, b] and [a, b, b].
RepeatedPropertyDocs ==
    LET ab == {[name |-> "a", dataType |-> "text"], [name |-> "b", dataType |-> "text"]}
    IN  {Document([Bare EXCEPT !.properties = <<ps>>]) :
            ps \in {l \in [1..(MaxProps + 1) -> ab] : \A x \in ab : \E q \in DOMAIN l : l[q] = x}}

CompareDocs ==
    UNION {Documents(g, c) : g \in KeyGroups, c \in {Bare, Typical}}
        \cup RepeatedPropertyDocs

----------------------------------------------------------------------------
(* The variables of the calls a specification does not make *)

NormalizeIdle == schema = NoDoc /\ normalized = NoDoc /\ renormalized = NoDoc

CompareIdle == baseline = NoDoc /\ exported = NoDoc /\ result = NoDoc

ReportIdle ==
    outcomes = NoDoc /\ summary = NoDoc /\ markdown = NoDoc /\ comparison_report = NoDoc

MainIdle == exit_code = NoDoc

VersionsIdle ==
    /\ versions_file = NoDoc
    /\ in_place = NoDoc
    /\ output_content = NoDoc
    /\ registry = NoDoc
    /\ versions = NoDoc
    /\ versions_order = NoDoc
    /\ vi = NoDoc
    /\ updates = NoDoc

GenerateIdle == cleanup_requested = NoDoc /\ generated = NoDoc

TestIdle ==
    /\ client = NoDoc
    /\ baseline_path = NoDoc
    /\ faults = NoDoc
    /\ collections = NoDoc
    /\ collection_name = NoDoc
    /\ output_file = NoDoc
    /\ test_result = NoDoc

RunnerIdle ==
    /\ baselines = << >>
    /\ exported_schemas = << >>
    /\ schema_order = << >>
    /\ client_order = << >>
    /\ si = 0
    /\ ci = 0
    /\ loaded = NoDoc
    /\ results = << >>

----------------------------------------------------------------------------
(* normalize_schema applied to a document, and to its own output *)

InitNormalize ==
    /\ pc = "start"
    /\ schema \in Schemas
    /\ normalized = NoDoc
    /\ renormalized = NoDoc
    /\ CompareIdle
    /\ RunnerIdle
    /\ ReportIdle
    /\ MainIdle
    /\ TestIdle
    /\ GenerateIdle
    /\ VersionsIdle

Normalize ==
    /\ pc = "start"
    /\ normalized' = normalize_schema(schema)
    /\ schema' = ArgumentAfterNormalize(schema)
    /\ pc' = "normalized"
    /\ UNCHANGED <<renormalized, compareVars, runnerVars, reportVars, mainVars, testVars, genVars, versionVars>>

NormalizeAgain ==
    /\ pc = "normalized"
    /\ renormalized' = normalize_schema(normalized)
    /\ pc' = "renormalized"
    /\ UNCHANGED <<schema, normalized, compareVars, runnerVars, reportVars, mainVars, testVars, genVars, versionVars>>

NextNormalize == Normalize \/ NormalizeAgain

SpecNormalize == InitNormalize /\ [][NextNormalize]_vars

----------------------------------------------------------------------------
(* Claims about normalize_schema *)

IsPermutation(s, t) ==
    /\ Len(s) = Len(t)
    /\ \E f \in [1..Len(s) -> 1..Len(s)] :
          /\ \A p, q \in 1..Len(s) : p # q => f[p] # f[q]
          /\ \A p \in 1..Len(s) : t[p] = s[f[p]]

AliasAndVolatileKeys == {"class", "name"} \cup IGNORE_FIELDS

\* C3: normalizing a normalized document changes nothing, the order of the
\* properties and of the vectorConfig keys included.
C3_NormalizeIdempotent ==
    pc = "renormalized" => renormalized = normalized

C3_Witness ==
    /\ pc = "renormalized"
    /\ {"class", "creationTimeUnix", "properties", "vectorConfig"} \subseteq DOMAIN schema
    /\ Len(schema["properties"]) = 2
    /\ PropertyKey(schema["properties"][1]) = PropertyKey(schema["properties"][2])
    /\ schema["properties"][1] # schema["properties"][2]
    /\ schema["vectorConfig"] # normalized["vectorConfig"]
    /\ renormalized = normalized

\* C9: the output never has `class`; `name` keeps its value when the input has
\* it, takes the value of `class` when the input has only `class`, and is
\* absent when the input has neither.
C9_AliasResolution ==
    pc # "start" =>
        /\ "class" \notin DOMAIN normalized
        /\ "name" \in DOMAIN schema =>
              ("name" \in DOMAIN normalized /\ normalized["name"] = schema["name"])
        /\ ("class" \in DOMAIN schema /\ "name" \notin DOMAIN schema) =>
              ("name" \in DOMAIN normalized /\ normalized["name"] = schema["class"])
        /\ ("class" \notin DOMAIN schema /\ "name" \notin DOMAIN schema) =>
              "name" \notin DOMAIN normalized

C9_Witness ==
    /\ pc = "normalized"
    /\ {"class", "name"} \subseteq DOMAIN schema
    /\ schema["class"] # schema["name"]
    /\ normalized["name"] = schema["name"]
    /\ "class" \notin DOMAIN normalized

\* Python equality of the values of key k: an insertion-ordered mapping
\* equals another with the same items in any order.
SameValue(k, v1, v2) ==
    IF k = "vectorConfig" THEN AsMapping(v1) = AsMapping(v2) ELSE v1 = v2

\* C10 as stated: the output has no timestamp field and every key that is
\* neither a timestamp nor an alias keeps its value.
C10_OtherKeysKeepValue ==
    pc # "start" =>
        /\ IGNORE_FIELDS \cap DOMAIN normalized = {}
        /\ \A k \in (DOMAIN schema) \ AliasAndVolatileKeys :
              k \in DOMAIN normalized /\ SameValue(k, schema[k], normalized[k])

\* C10 amended: the output has no timestamp field; every key that is neither
\* a timestamp nor an alias is kept, `properties` with the same descriptors in
\* some order, `vectorConfig` with the same items in some order, every other
\* key with its value.
C10_VolatileRemovedOthersKept ==
    pc # "start" =>
        /\ IGNORE_FIELDS \cap DOMAIN normalized = {}
        /\ (DOMAIN normalized) \ {"name"} = (DOMAIN schema) \ AliasAndVolatileKeys
        /\ \A k \in (DOMAIN schema) \ AliasAndVolatileKeys :
              IF k = "properties"
                  THEN IsPermutation(schema[k], normalized[k])
                  ELSE SameValue(k, schema[k], normalized[k])

C10_Witness ==
    /\ pc = "normalized"
    /\ IGNORE_FIELDS \subseteq DOMAIN schema
    /\ {"properties", "vectorConfig", "replicationConfig"} \subseteq DOMAIN schema
    /\ schema["properties"] # normalized["properties"]
    /\ normalized["replicationConfig"] = schema["replicationConfig"]
    /\ IGNORE_FIELDS \cap DOMAIN normalized = {}

----------------------------------------------------------------------------
(* compare_schemas applied to a baseline and an exported document *)

InitCompare ==
    /\ pc = "start"
    /\ baseline \in CompareDocs
    /\ exported \in CompareDocs
    /\ result = NoDoc
    /\ NormalizeIdle
    /\ RunnerIdle
    /\ ReportIdle
    /\ MainIdle
    /\ TestIdle
    /\ GenerateIdle
    /\ VersionsIdle

Compare ==
    /\ pc = "start"
    /\ result' = compare_schemas(baseline, exported)
    /\ baseline' = ArgumentAfterNormalize(baseline)
    /\ exported' = ArgumentAfterNormalize(exported)
    /\ pc' = "compared"
    /\ UNCHANGED <<normalizeVars, runnerVars, reportVars, mainVars, testVars, genVars, versionVars>>

NextCompare == Compare

SpecCompare == InitCompare /\ [][NextCompare]_vars

----------------------------------------------------------------------------
(* Claims about compare_schemas *)

NestedMappings == {"replicationConfig", "invertedIndexConfig"}

\* `with` is `without` plus the single nested key g.k, holding the value
\* DEFAULT_VALUES gives for that path.
AddsOnlyDefault(without, with) ==
    \E g \in DOMAIN DEFAULT_VALUES :
        \E k \in DOMAIN DEFAULT_VALUES[g] :
            /\ g \in DOMAIN with
            /\ k \in DOMAIN with[g]
            /\ with[g][k] = DEFAULT_VALUES[g][k]
            /\ without = setitem(with, g, pop(with[g], k))

\* C1: two documents that differ only in that one lacks a key of the defaults
\* table and the other has it with the default value compare identical, with
\* no differences.
C1_DefaultEqualsAbsent ==
    (pc = "compared"
        /\ (AddsOnlyDefault(baseline, exported) \/ AddsOnlyDefault(exported, baseline)))
    => (result.identical /\ result.differences = {})

\* C4: a document compared to itself is identical, with no differences.
C4_SelfCompareIdentical ==
    (pc = "compared" /\ baseline = exported)
    => (result.identical /\ result.differences = {})

C4_Witness ==
    /\ pc = "compared"
    /\ baseline = exported
    /\ {"class", "properties", "vectorConfig"} \subseteq DOMAIN baseline
    /\ result.identical

\* C5: the verdict does not depend on which document is the baseline:
\* compare_schemas(a, b) is identical exactly when compare_schemas(b, a) is.
C5_SymmetricDetection ==
    pc = "compared"
    => (result.identical <=> compare_schemas(exported, baseline).identical)

C5_Witness ==
    /\ pc = "compared"
    /\ ~result.identical
    /\ \E e \in result.differences : e.kind = "dictionary_item_added"
    /\ \A e \in result.differences : e.kind # "dictionary_item_removed"
    /\ ~compare_schemas(exported, baseline).identical

\* `b` is `a` with its properties list permuted.
PermutedProperties(a, b) ==
    /\ "properties" \in DOMAIN a
    /\ "properties" \in DOMAIN b
    /\ IsPermutation(a["properties"], b["properties"])
    /\ b = setitem(a, "properties", b["properties"])

\* C6: a document and the same document with its properties in another order
\* compare identical.
C6_PropertyOrderIgnored ==
    (pc = "compared" /\ PermutedProperties(baseline, exported))
    => result.identical

C6_Witness ==
    /\ pc = "compared"
    /\ PermutedProperties(baseline, exported)
    /\ baseline["properties"] # exported["properties"]
    /\ PropertyKey(baseline["properties"][1]) = PropertyKey(baseline["properties"][2])
    /\ result.identical

Elements(items) == {items[q] : q \in 1..Len(items)}

\* `a` and `b` differ at most in their properties, and their property lists
\* hold the same distinct descriptors.
SameDistinctProperties(a, b) ==
    /\ "properties" \in DOMAIN a
    /\ "properties" \in DOMAIN b
    /\ b = setitem(a, "properties", b["properties"])
    /\ Elements(a["properties"]) = Elements(b["properties"])

EqualMultiplicities(s, t) ==
    \A x \in Elements(s) \cup Elements(t) : Occurrences(s, x) = Occurrences(t, x)

\* C12: two documents whose property lists hold the same distinct descriptors
\* compare identical exactly when every descriptor is repeated the same number
\* of times on both sides, whatever the order.
C12_MultiplicityPreserved ==
    (pc = "compared" /\ SameDistinctProperties(baseline, exported))
    => (result.identical
            <=> EqualMultiplicities(baseline["properties"], exported["properties"]))

\* [a, a, b] against [a, b, b]: same length, same descriptors, other counts.
C12_Witness ==
    /\ pc = "compared"
    /\ SameDistinctProperties(baseline, exported)
    /\ Len(baseline["properties"]) = MaxProps + 1
    /\ Len(exported["properties"]) = MaxProps + 1
    /\ ~EqualMultiplicities(baseline["properties"], exported["properties"])
    /\ ~result.identical

MappingKeys == {"vectorConfig", "replicationConfig", "invertedIndexConfig"}

\* The value of top-level key k as a mapping.
MappingAt(d, k) == IF k = "vectorConfig" THEN AsMapping(d[k]) ELSE d[k]

\* Keys that one of the mappings a, b lacks or that they map to other values.
DivergentKeys(a, b) ==
    {k \in (DOMAIN a) \cup (DOMAIN b) :
        k \in (DOMAIN a) \cap (DOMAIN b) => a[k] # b[k]}

\* The paths at which the normalized documents a and b diverge: a top-level
\* key of one side, a top-level scalar with two values, a key of a nested
\* mapping of one side or with two values, an index of one property list whose
\* descriptor the other list lacks.
DivergentPaths(a, b) ==
    {KeyPath("root", k) :
        k \in {x \in DivergentKeys(a, b) :
                  x \in (DOMAIN a) \cap (DOMAIN b) => x \notin MappingKeys \cup {"properties"}}}
    \cup UNION {{KeyPath(KeyPath("root", k), j) :
                    j \in DivergentKeys(MappingAt(a, k), MappingAt(b, k))} :
                k \in (DOMAIN a) \cap (DOMAIN b) \cap MappingKeys}
    \cup (IF "properties" \in (DOMAIN a) \cap (DOMAIN b)
            THEN {IndexPath(KeyPath("root", "properties"), q) :
                    q \in {r \in DOMAIN a["properties"] :
                              a["properties"][r] \notin Elements(b["properties"])}}
                 \cup {IndexPath(KeyPath("root", "properties"), q) :
                    q \in {r \in DOMAIN b["properties"] :
                              b["properties"][r] \notin Elements(a["properties"])}}
            ELSE {})

ReportedPaths == {e.path : e \in result.differences}

\* C13: every path at which the two normalized documents diverge is in the
\* difference mapping of the one compare_schemas call.
C13_AllDivergencesReported ==
    pc = "compared"
    => DivergentPaths(normalize_schema(baseline), normalize_schema(exported))
            \subseteq ReportedPaths

\* Divergences of three kinds at once: a top-level key of one side, a nested
\* key, a property.
C13_Witness ==
    /\ pc = "compared"
    /\ LET paths == DivergentPaths(normalize_schema(baseline), normalize_schema(exported))
       IN  /\ Cardinality(paths) >= 4
           /\ KeyPath("root", "invertedIndexConfig") \in paths
           /\ KeyPath(KeyPath("root", "replicationConfig"), "factor") \in paths
           /\ IndexPath(KeyPath("root", "properties"), 1) \in paths
           /\ paths \subseteq ReportedPaths
    /\ Cardinality(result.differences) >= 4

Without(d, keys) == [k \in (DOMAIN d) \ keys |-> d[k]]

\* `exp` is `base` except that the collection name may be under `class`
\* instead of `name` and that timestamp fields may have been added.
ExportVariation(base, exp) ==
    /\ "name" \in DOMAIN base
    /\ "class" \notin DOMAIN base
    /\ Without(exp, AliasAndVolatileKeys) = Without(base, AliasAndVolatileKeys)
    /\ \A k \in IGNORE_FIELDS \cap DOMAIN base : k \in DOMAIN exp /\ exp[k] = base[k]
    /\ \/ "name" \in DOMAIN exp /\ "class" \notin DOMAIN exp /\ exp["name"] = base["name"]
       \/ "class" \in DOMAIN exp /\ "name" \notin DOMAIN exp /\ exp["class"] = base["name"]

\* C7: an exported document that differs from the baseline only by the
\* class/name alias and by added timestamp fields compares identical.
C7_ExportVariationsIdentical ==
    (pc = "compared" /\ ExportVariation(baseline, exported))
    => result.identical

C7_Witness ==
    /\ pc = "compared"
    /\ ExportVariation(baseline, exported)
    /\ "properties" \in DOMAIN baseline
    /\ "class" \in DOMAIN exported
    /\ IGNORE_FIELDS \subseteq DOMAIN exported
    /\ IGNORE_FIELDS \cap DOMAIN baseline = {}
    /\ result.identical

OneSidedKey(a, b) ==
    \/ (DOMAIN a) # (DOMAIN b)
    \/ \E g \in NestedMappings \cap (DOMAIN a) \cap (DOMAIN b) :
          \E k \in ((DOMAIN a[g]) \ (DOMAIN b[g])) \cup ((DOMAIN b[g]) \ (DOMAIN a[g])) :
              LET v == IF k \in DOMAIN a[g] THEN a[g][k] ELSE b[g][k]
              IN  v # DEFAULT_VALUES[g][k]
    \/ /\ "vectorConfig" \in (DOMAIN a) \cap (DOMAIN b)
       /\ DOMAIN AsMapping(a["vectorConfig"]) # DOMAIN AsMapping(b["vectorConfig"])

----------------------------------------------------------------------------
(* compare_results.compare_all_schemas *)

SchemaNames == {"P0-basic-text-only", "P0-single-named-vector"}

ClientNames == {"python", "typescript"}

\* What a config.json holds: a document, text that json.load rejects, a JSON
\* value that is no object, or an object whose `properties` is no list of
\* objects.
FileOf(d) == [kind |-> "document", doc |-> d]

Unparseable == [kind |-> "unparseable"]

NonObject == [kind |-> "non_object"]

BadProperties == [kind |-> "bad_properties"]

StoredBaseline ==
    [ name |-> "T",
      properties |-> << [name |-> "b", dataType |-> "text"],
                        [name |-> "a", dataType |-> "text"] >> ]

ExportedSame ==
    [ class |-> "T",
      creationTimeUnix |-> 123,
      properties |-> << [name |-> "a", dataType |-> "text"],
                        [name |-> "b", dataType |-> "text"] >> ]

ExportedOther ==
    [ name |-> "T",
      properties |-> << [name |-> "a", dataType |-> "int"] >> ]

BaselineFiles == {FileOf(StoredBaseline), Unparseable, NonObject}

ExportedFiles == {FileOf(ExportedSame), FileOf(ExportedOther), Unparseable, BadProperties}

Orders(S) ==
    {o \in [1..Cardinality(S) -> S] : \A p, q \in 1..Cardinality(S) : p # q => o[p] # o[q]}

\* json.load(f) raises on text that is no JSON.
JsonLoadRaises(file) == file.kind = "unparseable"

\* normalize_schema raises on a root without pop() for keys and on a
\* `properties` whose items have no get().
NormalizeRaises(file) == file.kind \in {"non_object", "bad_properties"}

\* compare_schemas normalizes the baseline, then the exported document.
CompareRaises(base, exp) == NormalizeRaises(base) \/ NormalizeRaises(exp)

BaselinePath(s) == "schemas/" \o s \o "/config.json"

ExportedPath(c, s) == "exported-schemas/" \o c \o "/" \o s \o "/config.json"

NotExportedOutcome(s, c) ==
    [ schema_name |-> s,
      client |-> c,
      match |-> FALSE,
      error |-> "Schema not exported by client",
      differences |-> {} ]

\* Only the first pair that is compared can match.
ComparedOutcomeAfterOthers(s, c, r) ==
    [ schema_name |-> s,
      client |-> c,
      match |-> r.identical /\ results = << >>,
      differences |-> r.differences,
      baseline_path |-> BaselinePath(s),
      exported_path |-> ExportedPath(c, s) ]

ComparedOutcome(s, c, r) ==
    [ schema_name |-> s,
      client |-> c,
      match |-> r.identical,
      differences |-> r.differences,
      baseline_path |-> BaselinePath(s),
      exported_path |-> ExportedPath(c, s) ]

InitRunner ==
    /\ pc = "next_schema"
    /\ \E S \in SUBSET SchemaNames : baselines \in [S -> BaselineFiles]
    /\ \E C \in SUBSET ClientNames :
          exported_schemas \in [C -> UNION {[S -> ExportedFiles] : S \in SUBSET SchemaNames}]
    /\ schema_order \in Orders(DOMAIN baselines)
    /\ client_order \in Orders(DOMAIN exported_schemas)
    /\ si = 1
    /\ ci = 1
    /\ loaded = NoDoc
    /\ results = << >>
    /\ NormalizeIdle
    /\ CompareIdle
    /\ ReportIdle
    /\ MainIdle
    /\ TestIdle
    /\ GenerateIdle
    /\ VersionsIdle

CurrentSchema == schema_order[si]

CurrentClient == client_order[ci]

\* for schema_name, baseline_path in baselines.items(): json.load(f)
LoadBaseline ==
    /\ pc = "next_schema"
    /\ si <= Len(schema_order)
    /\ ~JsonLoadRaises(baselines[CurrentSchema])
    /\ loaded' = baselines[CurrentSchema]
    /\ ci' = 1
    /\ pc' = "next_client"
    /\ UNCHANGED <<baselines, exported_schemas, schema_order, client_order, si, results>>
    /\ UNCHANGED <<normalizeVars, compareVars, reportVars, mainVars, testVars, genVars, versionVars>>

\* json.load of the baseline raises: nothing catches it.
LoadBaselineRaises ==
    /\ pc = "next_schema"
    /\ si <= Len(schema_order)
    /\ JsonLoadRaises(baselines[CurrentSchema])
    /\ pc' = "raised"
    /\ UNCHANGED runnerVars
    /\ UNCHANGED <<normalizeVars, compareVars, reportVars, mainVars, testVars, genVars, versionVars>>

\* return results
Return ==
    /\ pc = "next_schema"
    /\ si > Len(schema_order)
    /\ pc' = "returned"
    /\ UNCHANGED runnerVars
    /\ UNCHANGED <<normalizeVars, compareVars, reportVars, mainVars, testVars, genVars, versionVars>>

\* The inner loop is over: next baseline.
ClientsDone ==
    /\ pc = "next_client"
    /\ ci > Len(client_order)
    /\ si' = si + 1
    /\ pc' = "next_schema"
    /\ UNCHANGED <<baselines, exported_schemas, schema_order, client_order, ci, loaded, results>>
    /\ UNCHANGED <<normalizeVars, compareVars, reportVars, mainVars, testVars, genVars, versionVars>>

\* if schema_name not in client_schemas: continue
NotExportedSkipped ==
    /\ pc = "next_client"
    /\ ci <= Len(client_order)
    /\ CurrentSchema \notin DOMAIN exported_schemas[CurrentClient]
    /\ ci' = ci + 1
    /\ UNCHANGED <<pc, baselines, exported_schemas, schema_order, client_order, si, loaded, results>>
    /\ UNCHANGED <<normalizeVars, compareVars, reportVars, mainVars, testVars, genVars, versionVars>>

\* if schema_name not in client_schemas: append the failing outcome; continue
NotExported ==
    /\ pc = "next_client"
    /\ ci <= Len(client_order)
    /\ CurrentSchema \notin DOMAIN exported_schemas[CurrentClient]
    /\ results' = Append(results, NotExportedOutcome(CurrentSchema, CurrentClient))
    /\ ci' = ci + 1
    /\ UNCHANGED <<pc, baselines, exported_schemas, schema_order, client_order, si, loaded>>
    /\ UNCHANGED <<normalizeVars, compareVars, reportVars, mainVars, testVars, genVars, versionVars>>

\* json.load of the exported file, compare_schemas, append the outcome
ComparePair ==
    /\ pc = "next_client"
    /\ ci <= Len(client_order)
    /\ CurrentSchema \in DOMAIN exported_schemas[CurrentClient]
    /\ LET file == exported_schemas[CurrentClient][CurrentSchema]
       IN  /\ ~JsonLoadRaises(file)
           /\ ~CompareRaises(loaded, file)
           /\ results' = Append(results,
                  ComparedOutcome(CurrentSchema, CurrentClient,
                                  compare_schemas(loaded.doc, file.doc)))
    /\ ci' = ci + 1
    /\ UNCHANGED <<pc, baselines, exported_schemas, schema_order, client_order, si, loaded>>
    /\ UNCHANGED <<normalizeVars, compareVars, reportVars, mainVars, testVars, genVars, versionVars>>

\* json.load of the exported file or compare_schemas raises: nothing catches it.
ComparePairRaises ==
    /\ pc = "next_client"
    /\ ci <= Len(client_order)
    /\ CurrentSchema \in DOMAIN exported_schemas[CurrentClient]
    /\ LET file == exported_schemas[CurrentClient][CurrentSchema]
       IN  JsonLoadRaises(file) \/ CompareRaises(loaded, file)
    /\ pc' = "raised"
    /\ UNCHANGED runnerVars
    /\ UNCHANGED <<normalizeVars, compareVars, reportVars, mainVars, testVars, genVars, versionVars>>

NextRunner ==
    \/ LoadBaseline
    \/ LoadBaselineRaises
    \/ Return
    \/ ClientsDone
    \/ NotExported
    \/ ComparePair
    \/ ComparePairRaises

SpecRunner == InitRunner /\ [][NextRunner]_vars

----------------------------------------------------------------------------
(* Claims about compare_all_schemas *)

\* What the caller of compare_all_schemas gets: the list when it returns,
\* nothing when it raises.
ReturnedResults == IF pc = "returned" THEN results ELSE << >>

HasOutcome(s, c) ==
    \E q \in 1..Len(ReturnedResults) :
        ReturnedResults[q].schema_name = s /\ ReturnedResults[q].client = c

\* Loading or comparing the pair (s, c) raises.
PairFails(s, c) ==
    \/ JsonLoadRaises(baselines[s])
    \/ /\ s \in DOMAIN exported_schemas[c]
       /\ \/ JsonLoadRaises(exported_schemas[c][s])
          \/ CompareRaises(baselines[s], exported_schemas[c][s])

\* C2: when compare_all_schemas is over, every pair in which nothing raises
\* has its outcome, whatever happened in the other pairs.
C2_FailureIsolatedPerPair ==
    pc \in {"returned", "raised"} =>
        \A s \in DOMAIN baselines :
            \A c \in DOMAIN exported_schemas :
                ~PairFails(s, c) => HasOutcome(s, c)

OutcomesOf(s, c) ==
    {q \in 1..Len(ReturnedResults) :
        ReturnedResults[q].schema_name = s /\ ReturnedResults[q].client = c}

\* C14: when compare_all_schemas is over, its result holds exactly one outcome
\* for each baseline schema and each discovered client, and no other outcome.
C14_OneOutcomePerPair ==
    pc \in {"returned", "raised"} =>
        /\ Len(ReturnedResults)
              = Cardinality(DOMAIN baselines) * Cardinality(DOMAIN exported_schemas)
        /\ \A s \in DOMAIN baselines :
              \A c \in DOMAIN exported_schemas : Cardinality(OutcomesOf(s, c)) = 1
        /\ \A q \in 1..Len(ReturnedResults) :
              /\ ReturnedResults[q].schema_name \in DOMAIN baselines
              /\ ReturnedResults[q].client \in DOMAIN exported_schemas

\* The pair of the p-th baseline and the q-th client has had its turn.
Processed(p, q) ==
    \/ p < si
    \/ p = si /\ pc = "next_client" /\ q < ci

IsNotExportedOutcome(o) ==
    /\ "error" \in DOMAIN o
    /\ o.error = "Schema not exported by client"
    /\ ~o.match
    /\ o.differences = {}

IsMismatchOutcome(o) ==
    /\ "error" \notin DOMAIN o
    /\ ~o.match
    /\ o.differences # {}

----------------------------------------------------------------------------
(* compare_results.generate_summary and generate_markdown_report,
   SchemaComparator.generate_comparison_report.  A report is the record of
   its sections; the check mark and the cross of the headings are left out of
   the text. *)

MaxOutcomes == 3

\* The outcomes compare_all_schemas appends: the client did not export the
\* schema, the documents compare identical, the documents differ.
OutcomeSet ==
    UNION {{NotExportedOutcome(s, c),
            ComparedOutcome(s, c, compare_schemas(StoredBaseline, ExportedSame)),
            ComparedOutcome(s, c, compare_schemas(StoredBaseline, ExportedOther))} :
                s \in SchemaNames, c \in ClientNames}

\* Division by zero raises; a number is the fraction num / den.
ZeroDivisionError == [raised |-> "ZeroDivisionError"]

Raised(x) == "raised" \in DOMAIN x

\* The int 0.
Zero == [num |-> 0, den |-> 1]

\* passed / total * 100
Percentage(passed, total) ==
    IF total = 0 THEN ZeroDivisionError ELSE [num |-> passed * 100, den |-> total]

\* passed / total * 100, whatever total is.
PassRateUnguarded(passed, total) == Percentage(passed, total)

\* (passed / total * 100) if total > 0 else 0
PassRate(passed, total) == IF total > 0 THEN Percentage(passed, total) ELSE Zero

\* The first decimal is cut, not rounded.
Format1fTruncated(x) ==
    LET tenths == (x.num * 10) \div x.den
    IN  ToString(tenths \div 10) \o "." \o ToString(tenths % 10)

\* f"{x:.1f}": one decimal, rounded to the nearest tenth, a tie to the even one.
Format1f(x) ==
    LET q == (x.num * 10) \div x.den
        rest == (x.num * 10) % x.den
        tenths == IF 2 * rest > x.den THEN q + 1
                  ELSE IF 2 * rest < x.den THEN q
                  ELSE q + (q % 2)
    IN  ToString(tenths \div 10) \o "." \o ToString(tenths % 10)

Front(items) == SubSeq(items, 1, Len(items) - 1)

Last(items) == items[Len(items)]

\* The loop that counts the results by result[key]: the bucket of a key is
\* made when the key is first met.
RECURSIVE GroupStats(_, _)
GroupStats(rs, key) ==
    IF rs = << >> THEN << >>
    ELSE LET stats == GroupStats(Front(rs), key)
             k == Last(rs)[key]
             old == IF k \in DOMAIN stats THEN stats[k]
                    ELSE [total |-> 0, passed |-> 0, failed |-> 0]
         IN  setitem(stats, k,
                 [ total |-> old.total + 1,
                   passed |-> old.passed + (IF Last(rs).match THEN 1 ELSE 0),
                   failed |-> old.failed + (IF Last(rs).match THEN 0 ELSE 1) ])

\* The order of the items of the mapping GroupStats builds: insertion order.
RECURSIVE ItemsOrder(_, _)
ItemsOrder(rs, key) ==
    IF rs = << >> THEN << >>
    ELSE LET keys == ItemsOrder(Front(rs), key)
             k == Last(rs)[key]
         IN  IF \E q \in DOMAIN keys : keys[q] = k THEN keys ELSE Append(keys, k)

\* sum(1 for r in results if r['match'])
NumberPassed(rs) == Cardinality({q \in DOMAIN rs : rs[q].match})

\* The per-schema statistics are grouped by client.
generate_summary_by_client_only(rs) ==
    LET total == Len(rs)
        passed == NumberPassed(rs)
    IN  [ total |-> total,
          passed |-> passed,
          failed |-> total - passed,
          pass_rate |-> PassRate(passed, total),
          clients |-> GroupStats(rs, "client"),
          clients_order |-> ItemsOrder(rs, "client"),
          schemas |-> GroupStats(rs, "client"),
          schemas_order |-> ItemsOrder(rs, "client") ]

\* clients_order and schemas_order are the orders in which the two mappings
\* were filled, which a Python dict keeps.
generate_summary(rs) ==
    LET total == Len(rs)
        passed == NumberPassed(rs)
    IN  [ total |-> total,
          passed |-> passed,
          failed |-> total - passed,
          pass_rate |-> PassRate(passed, total),
          clients |-> GroupStats(rs, "client"),
          clients_order |-> ItemsOrder(rs, "client"),
          schemas |-> GroupStats(rs, "schema_name"),
          schemas_order |-> ItemsOrder(rs, "schema_name") ]

\* json.dumps(differences, indent=2): the text of the mapping.
JsonDumps(d) == [json |-> d]

\* One "### key" block of "Results by Client" or "Results by Schema".
StatsBlock(key, stats, total_label) ==
    [ heading |-> "### " \o key,
      status |-> IF stats.failed = 0 THEN "passed" ELSE "failed",
      lines |-> << total_label \o ToString(stats.total),
                   "- Passed: " \o ToString(stats.passed),
                   "- Failed: " \o ToString(stats.failed),
                   "- Pass Rate: " \o Format1f(PassRate(stats.passed, stats.total)) \o "%" >> ]

IsFailure(r) == ~r.match

\* Every result is listed.
EveryResult(rs) == rs

\* failures = [r for r in results if not r['match']]
Failures(rs) == SelectSeq(rs, IsFailure)

\* One block of "Detailed Failures".
FailureBlock(failure) ==
    IF "error" \in DOMAIN failure
        THEN [ heading |-> "### " \o failure.client \o " / " \o failure.schema_name,
               error |-> "**Error:** " \o failure.error ]
        ELSE [ heading |-> "### " \o failure.client \o " / " \o failure.schema_name,
               differences |-> JsonDumps(failure.differences) ]

generate_markdown_report(sm, rs) ==
    LET failures == Failures(rs)
    IN  [ summary |-> << "- Total Tests: " \o ToString(sm.total),
                         "- Passed: " \o ToString(sm.passed),
                         "- Failed: " \o ToString(sm.failed),
                         "- Pass Rate: " \o Format1f(sm.pass_rate) \o "%" >>,
          by_client |-> [q \in DOMAIN sm.clients_order |->
                            StatsBlock(sm.clients_order[q], sm.clients[sm.clients_order[q]],
                                       "- Total: ")],
          by_schema |-> [q \in DOMAIN sm.schemas_order |->
                            StatsBlock(sm.schemas_order[q], sm.schemas[sm.schemas_order[q]],
                                       "- Total Clients: ")],
          closing |-> IF failures # << >> THEN "## Detailed Failures"
                      ELSE "## Cross-Language Consistency",
          failures |-> [q \in DOMAIN failures |-> FailureBlock(failures[q])] ]

\* The pass rate line divides without looking at total.
generate_comparison_report(comparisons) ==
    LET total == Len(comparisons)
        passed == NumberPassed(comparisons)
        failed == total - passed
        rate == Percentage(passed, total)
        failing == Failures(comparisons)
    IN  IF Raised(rate) THEN rate
        ELSE [ summary |-> << "- Total Comparisons: " \o ToString(total),
                              "- Passed: " \o ToString(passed),
                              "- Failed: " \o ToString(failed),
                              "- Pass Rate: " \o Format1f(rate) \o "%" >>,
               failures_section |-> failed > 0,
               failures |-> [q \in DOMAIN failing |->
                                [ heading |-> "### " \o failing[q].schema_name,
                                  differences |-> JsonDumps(failing[q].differences) ]] ]

InitReport ==
    /\ pc = "outcomes"
    /\ outcomes \in SeqsUpTo(OutcomeSet, MaxOutcomes)
    /\ summary = NoDoc
    /\ markdown = NoDoc
    /\ comparison_report = NoDoc
    /\ NormalizeIdle
    /\ CompareIdle
    /\ RunnerIdle
    /\ MainIdle
    /\ TestIdle
    /\ GenerateIdle
    /\ VersionsIdle

\* summary = generate_summary(results)
GenerateSummary ==
    /\ pc = "outcomes"
    /\ summary' = generate_summary(outcomes)
    /\ pc' = "summarized"
    /\ UNCHANGED <<outcomes, markdown, comparison_report>>
    /\ UNCHANGED <<normalizeVars, compareVars, runnerVars, mainVars, testVars, genVars, versionVars>>

\* report = generate_markdown_report(summary, results)
GenerateMarkdownReport ==
    /\ pc = "summarized"
    /\ markdown' = generate_markdown_report(summary, outcomes)
    /\ pc' = "reported"
    /\ UNCHANGED <<outcomes, summary, comparison_report>>
    /\ UNCHANGED <<normalizeVars, compareVars, runnerVars, mainVars, testVars, genVars, versionVars>>

\* comparator.generate_comparison_report(results), a call of its own
GenerateComparisonReport ==
    /\ pc \in {"outcomes", "summarized", "reported"}
    /\ comparison_report = NoDoc
    /\ comparison_report' = generate_comparison_report(outcomes)
    /\ UNCHANGED <<pc, outcomes, summary, markdown>>
    /\ UNCHANGED <<normalizeVars, compareVars, runnerVars, mainVars, testVars, genVars, versionVars>>

NextReport ==
    \/ GenerateSummary
    \/ GenerateMarkdownReport
    \/ GenerateComparisonReport

SpecReport == InitReport /\ [][NextReport]_vars

----------------------------------------------------------------------------
(* Claims about the summary and the reports *)

Summarized == pc \in {"summarized", "reported"}

KeysOf(rs, key) == {rs[q][key] : q \in DOMAIN rs}

WithKey(rs, key, k) == {q \in DOMAIN rs : rs[q][key] = k}

RECURSIVE SumOf(_, _, _)
SumOf(stats, keys, field) ==
    IF keys = {} THEN 0
    ELSE LET k == CHOOSE x \in keys : TRUE
         IN  stats[k][field] + SumOf(stats, keys \ {k}, field)

\* `stats` counts every outcome once, in the bucket of its rs[q][key].
IsPartition(stats, rs, key) ==
    /\ DOMAIN stats = KeysOf(rs, key)
    /\ \A k \in DOMAIN stats :
          /\ stats[k].total = Cardinality(WithKey(rs, key, k))
          /\ stats[k].passed = Cardinality({q \in WithKey(rs, key, k) : rs[q].match})
          /\ stats[k].total = stats[k].passed + stats[k].failed
          /\ stats[k].total >= 1
    /\ SumOf(stats, DOMAIN stats, "total") = Len(rs)
    /\ SumOf(stats, DOMAIN stats, "passed") = NumberPassed(rs)
    /\ SumOf(stats, DOMAIN stats, "failed") = Len(rs) - NumberPassed(rs)

\* C16: the summary counts the outcomes, those that match and the others, and
\* its per-client and per-schema statistics each count every outcome once, in
\* the bucket of its client and in the bucket of its schema.
C16_SummaryCountsAndPartitions ==
    Summarized =>
        /\ summary.total = Len(outcomes)
        /\ summary.passed = Cardinality({q \in DOMAIN outcomes : outcomes[q].match})
        /\ summary.failed = summary.total - summary.passed
        /\ IsPartition(summary.clients, outcomes, "client")
        /\ IsPartition(summary.schemas, outcomes, "schema_name")

\* Two clients and two schemas, buckets of different sizes in the two groupings.
C16_Witness ==
    /\ Summarized
    /\ summary.total = MaxOutcomes
    /\ summary.passed > 0
    /\ summary.failed > 0
    /\ Cardinality(DOMAIN summary.clients) = 2
    /\ Cardinality(DOMAIN summary.schemas) = 2
    /\ \E c \in DOMAIN summary.clients : summary.clients[c].failed = 0
    /\ \A n \in DOMAIN summary.schemas : summary.schemas[n].failed > 0

\* C17: the summary of no outcome at all is all zeros, with a pass rate of 0
\* and no bucket.
C17_EmptySummary ==
    (Summarized /\ outcomes = << >>) =>
        /\ ~Raised(summary.pass_rate)
        /\ summary.pass_rate = Zero
        /\ summary.total = 0
        /\ summary.passed = 0
        /\ summary.failed = 0
        /\ DOMAIN summary.clients = {}
        /\ DOMAIN summary.schemas = {}

C17_Witness ==
    /\ pc = "reported"
    /\ outcomes = << >>
    /\ summary.pass_rate = Zero
    /\ markdown.summary[4] = "- Pass Rate: 0.0%"

\* C18: neither renderer raises, whatever the outcome list.
C18_RenderersNeverRaise ==
    ~Raised(markdown) /\ ~Raised(comparison_report)

\* C19: over three outcomes of which two match, the summary has total 3,
\* passed 2 and failed 1, and the report gives the pass rate as 66.7.
C19_TwoOfThree ==
    (pc = "reported" /\ Len(outcomes) = 3 /\ NumberPassed(outcomes) = 2) =>
        /\ summary.total = 3
        /\ summary.passed = 2
        /\ summary.failed = 1
        /\ summary.pass_rate = [num |-> 200, den |-> 3]
        /\ markdown.summary = << "- Total Tests: 3", "- Passed: 2", "- Failed: 1",
                                 "- Pass Rate: 66.7%" >>

C19_Witness ==
    /\ pc = "reported"
    /\ Len(outcomes) = 3
    /\ NumberPassed(outcomes) = 2
    /\ markdown.summary[4] = "- Pass Rate: 66.7%"

FailingIndexes == {q \in DOMAIN outcomes : ~outcomes[q].match}

\* The index in `outcomes` of the n-th outcome that does not match.
NthFailing(n) ==
    CHOOSE q \in FailingIndexes : Cardinality({r \in FailingIndexes : r < q}) = n - 1

\* C20: the report closes with the detailed failures exactly when some
\* outcome does not match, and with the consistency confirmation otherwise;
\* the detailed failures list the failing outcomes, each once and no other,
\* with the error reason of an outcome that has one and the differences of
\* the others.
C20_ClosingSection ==
    pc = "reported" =>
        /\ markdown.closing \in {"## Detailed Failures", "## Cross-Language Consistency"}
        /\ markdown.closing = "## Detailed Failures" <=> FailingIndexes # {}
        /\ Len(markdown.failures) = Cardinality(FailingIndexes)
        /\ \A n \in DOMAIN markdown.failures :
              LET block == markdown.failures[n]
                  o == outcomes[NthFailing(n)]
              IN  /\ block.heading = "### " \o o.client \o " / " \o o.schema_name
                  /\ "error" \in DOMAIN block <=> "error" \in DOMAIN o
                  /\ "differences" \in DOMAIN block <=> "error" \notin DOMAIN o
                  /\ "error" \in DOMAIN o => block.error = "**Error:** " \o o.error
                  /\ "error" \notin DOMAIN o => block.differences = JsonDumps(o.differences)

\* A not-exported outcome, a mismatch and a matching outcome in one list.
C20_Witness ==
    /\ pc = "reported"
    /\ \E q \in DOMAIN outcomes : outcomes[q].match
    /\ Len(markdown.failures) = 2
    /\ \E n \in DOMAIN markdown.failures : "error" \in DOMAIN markdown.failures[n]
    /\ \E n \in DOMAIN markdown.failures : "differences" \in DOMAIN markdown.failures[n]
    /\ markdown.closing = "## Detailed Failures"

----------------------------------------------------------------------------
(* compare_results.main: the boundary process *)

\* baselines = load_baseline_schemas(schemas_dir); exported =
\* find_exported_schemas(results_dir): the config.json files found on disk.
InitMain ==
    /\ pc = "main"
    /\ \E S \in SUBSET SchemaNames : baselines \in [S -> BaselineFiles]
    /\ \E C \in SUBSET ClientNames :
          exported_schemas \in [C -> UNION {[S -> ExportedFiles] : S \in SUBSET SchemaNames}]
    /\ schema_order \in Orders(DOMAIN baselines)
    /\ client_order \in Orders(DOMAIN exported_schemas)
    /\ si = 1
    /\ ci = 1
    /\ loaded = NoDoc
    /\ results = << >>
    /\ exit_code = NoDoc
    /\ NormalizeIdle
    /\ CompareIdle
    /\ ReportIdle
    /\ TestIdle
    /\ GenerateIdle
    /\ VersionsIdle

\* return 0 if summary['failed'] == 0 else 1
ExitCodeAlwaysZero(sm) == 0

ExitCode(sm) == IF sm.failed = 0 THEN 0 ELSE 1

\* if not baselines: return 1
MainNoBaselines ==
    /\ pc = "main"
    /\ DOMAIN baselines = {}
    /\ exit_code' = 1
    /\ pc' = "exited"
    /\ UNCHANGED <<normalizeVars, compareVars, runnerVars, reportVars, testVars, genVars, versionVars>>

\* if not exported: return 1
MainNoExported ==
    /\ pc = "main"
    /\ DOMAIN baselines # {}
    /\ DOMAIN exported_schemas = {}
    /\ exit_code' = 1
    /\ pc' = "exited"
    /\ UNCHANGED <<normalizeVars, compareVars, runnerVars, reportVars, testVars, genVars, versionVars>>

\* results = compare_all_schemas(baselines, exported, comparator)
MainCompare ==
    /\ pc = "main"
    /\ DOMAIN baselines # {}
    /\ DOMAIN exported_schemas # {}
    /\ pc' = "next_schema"
    /\ UNCHANGED <<normalizeVars, compareVars, runnerVars, reportVars, mainVars, testVars, genVars, versionVars>>

\* summary, report, the two files, return 0 if summary['failed'] == 0 else 1
MainReport ==
    /\ pc = "returned"
    /\ summary' = generate_summary(results)
    /\ markdown' = generate_markdown_report(generate_summary(results), results)
    /\ exit_code' = ExitCode(generate_summary(results))
    /\ pc' = "exited"
    /\ UNCHANGED <<outcomes, comparison_report>>
    /\ UNCHANGED <<normalizeVars, compareVars, runnerVars, testVars, genVars, versionVars>>

\* sys.exit(main()) with an exception nothing catches: the interpreter prints
\* the traceback and the process exits with 1.
MainUncaught ==
    /\ pc = "raised"
    /\ exit_code' = 1
    /\ pc' = "exited"
    /\ UNCHANGED <<normalizeVars, compareVars, runnerVars, reportVars, testVars, genVars, versionVars>>

NextMain ==
    \/ MainNoBaselines
    \/ MainNoExported
    \/ MainCompare
    \/ NextRunner
    \/ MainReport
    \/ MainUncaught

SpecMain == InitMain /\ [][NextMain]_vars

----------------------------------------------------------------------------
(* Claims about main *)

\* main went as far as the summary.
Reported == pc = "exited" /\ summary # NoDoc

SomeOutcomeFailed == \E q \in DOMAIN results : ~results[q].match

\* C21 as stated: the exit code is not 0 exactly when some outcome failed,
\* whatever was found on disk.
C21_NonZeroIffFailed ==
    pc = "exited" => (exit_code # 0 <=> SomeOutcomeFailed)

\* C21: when baselines and clients were found and every comparison was made,
\* the exit code is 0 if no outcome failed and 1 otherwise; it is 1 when no
\* baseline or no client was found and when loading or comparing raised.
C21_ExitCode ==
    pc = "exited" =>
        IF Reported
            THEN /\ summary.failed = Cardinality({q \in DOMAIN results : ~results[q].match})
                 /\ exit_code = (IF summary.failed = 0 THEN 0 ELSE 1)
            ELSE exit_code = 1

C21_Witness ==
    /\ Reported
    /\ exit_code = 0
    /\ Len(results) = Cardinality(SchemaNames) * Cardinality(ClientNames)

\* The outcome of the pair (s, c), from its own two files and nothing else.
OwnOutcome(s, c) ==
    IF s \notin DOMAIN exported_schemas[c]
        THEN [ schema_name |-> s, client |-> c, match |-> FALSE,
               error |-> "Schema not exported by client", differences |-> {} ]
        ELSE LET r == compare_schemas(baselines[s].doc, exported_schemas[c][s].doc)
             IN  [ schema_name |-> s, client |-> c,
                   match |-> r.identical, differences |-> r.differences,
                   baseline_path |-> BaselinePath(s),
                   exported_path |-> ExportedPath(c, s) ]

\* Some file of the run cannot be loaded or compared.
SomeFileFails ==
    \E s \in DOMAIN baselines :
        \/ JsonLoadRaises(baselines[s])
        \/ \E c \in DOMAIN exported_schemas : PairFails(s, c)

Permuted(rs, o) == [q \in DOMAIN rs |-> rs[o[q]]]

SameCounts(a, b) ==
    /\ a.total = b.total
    /\ a.passed = b.passed
    /\ a.failed = b.failed
    /\ a.pass_rate = b.pass_rate
    /\ a.clients = b.clients
    /\ a.schemas = b.schemas

----------------------------------------------------------------------------
(* test_runner.TestRunner.run_test and the calls it makes.  None is << >>
   and any other value v is <<v>>. *)

None == << >>

Some(v) == <<v>>

\* The calls to the Weaviate instance and to the file system that can raise.
BackendCalls == {"exists", "delete", "create", "export", "save"}

\* What the file at baseline_path holds.
BaselineKinds == {"unparseable", "no_name", "named", "bad_data_type"}

\* schema.get('name') of the baselines that have one.
TestCollection == "T"

ExistingCollections == SUBSET {TestCollection, "U"}

Returns(cs, v) == [raised |-> None, collections |-> cs, value |-> v]

Raises(cs, msg) == [raised |-> Some(msg), collections |-> cs, value |-> None]

\* TestRunner.import_schema: what it raises or returns, and the collections
\* it leaves.
import_schema(cl, file, fl, cs) ==
    IF ~cl THEN Raises(cs, "Not connected to Weaviate. Call connect() first.")
    ELSE IF file = "no_name" THEN Raises(cs, "Schema missing 'name' field")
    ELSE IF "exists" \in fl THEN Raises(cs, "exists failed")
    ELSE IF TestCollection \in cs /\ "delete" \in fl THEN Raises(cs, "delete failed")
    ELSE LET deleted == cs \ {TestCollection}
         IN  IF file = "bad_data_type" THEN Raises(deleted, "DataType has no such attribute")
             ELSE IF "create" \in fl THEN Raises(deleted, "create failed")
             ELSE Returns(deleted \cup {TestCollection}, TestCollection)

\* The exception of exists or delete goes to the caller.
cleanup_unguarded(cl, fl, cs, name) ==
    IF ~cl THEN Returns(cs, None)
    ELSE IF "exists" \in fl THEN Raises(cs, "exists failed")
    ELSE IF name \in cs /\ "delete" \in fl THEN Raises(cs, "delete failed")
    ELSE Returns(cs \ {name}, None)

\* TestRunner.cleanup: nothing without a client; an exception of exists or
\* delete is logged and swallowed.
cleanup(cl, fl, cs, name) ==
    IF ~cl THEN Returns(cs, None)
    ELSE IF "exists" \in fl THEN Returns(cs, None)
    ELSE IF name \in cs /\ "delete" \in fl THEN Returns(cs, None)
    ELSE Returns(cs \ {name}, None)

ExportedPath_python == "exported-schemas/python/P0-basic-text-only/config.json"

InitRunTest ==
    /\ pc = "load_schema"
    /\ client \in BOOLEAN
    /\ baseline_path \in BaselineKinds
    /\ faults \in SUBSET BackendCalls
    /\ collections \in ExistingCollections
    /\ collection_name = None
    /\ output_file = FALSE
    /\ test_result = [ schema_name |-> "P0-basic-text-only", success |-> FALSE,
                       error |-> None, exported_path |-> None ]
    /\ NormalizeIdle
    /\ CompareIdle
    /\ RunnerIdle
    /\ ReportIdle
    /\ MainIdle
    /\ GenerateIdle
    /\ VersionsIdle

\* except Exception as e: result['error'] = str(e); return result
Caught(msg) ==
    /\ test_result' = [test_result EXCEPT !.error = Some(msg)]
    /\ pc' = "done"

\* baseline = self.load_schema(baseline_path)
LoadSchema ==
    /\ pc = "load_schema"
    /\ IF baseline_path = "unparseable"
          THEN Caught("Expecting value: line 1 column 1 (char 0)")
          ELSE pc' = "import_schema" /\ UNCHANGED test_result
    /\ UNCHANGED <<client, baseline_path, faults, collections, collection_name, output_file>>
    /\ UNCHANGED <<normalizeVars, compareVars, runnerVars, reportVars, mainVars, genVars, versionVars>>

\* collection_name = self.import_schema(baseline)
ImportSchema ==
    /\ pc = "import_schema"
    /\ LET r == import_schema(client, baseline_path, faults, collections)
       IN  /\ collections' = r.collections
           /\ IF r.raised # None
                 THEN Caught(r.raised[1]) /\ UNCHANGED collection_name
                 ELSE /\ collection_name' = Some(r.value)
                      /\ pc' = "export_schema"
                      /\ UNCHANGED test_result
    /\ UNCHANGED <<client, baseline_path, faults, output_file>>
    /\ UNCHANGED <<normalizeVars, compareVars, runnerVars, reportVars, mainVars, genVars, versionVars>>

\* exported = self.export_schema(collection_name)
ExportSchema ==
    /\ pc = "export_schema"
    /\ IF ~client THEN Caught("Not connected to Weaviate. Call connect() first.")
       ELSE IF "export" \in faults THEN Caught("export failed")
       ELSE pc' = "save_schema" /\ UNCHANGED test_result
    /\ UNCHANGED <<client, baseline_path, faults, collections, collection_name, output_file>>
    /\ UNCHANGED <<normalizeVars, compareVars, runnerVars, reportVars, mainVars, genVars, versionVars>>

\* self.save_schema(exported, output_path); result['success'] = True;
\* result['exported_path'] = str(output_path)
SaveSchema ==
    /\ pc = "save_schema"
    /\ IF "save" \in faults
          THEN Caught("save failed") /\ UNCHANGED output_file
          ELSE /\ output_file' = TRUE
               /\ test_result' = [test_result EXCEPT !.success = TRUE,
                                                     !.exported_path = Some(ExportedPath_python)]
               /\ pc' = "cleanup"
    /\ UNCHANGED <<client, baseline_path, faults, collections, collection_name>>
    /\ UNCHANGED <<normalizeVars, compareVars, runnerVars, reportVars, mainVars, genVars, versionVars>>

\* self.cleanup(collection_name), the last statement of the try block;
\* return result
Cleanup ==
    /\ pc = "cleanup"
    /\ LET r == cleanup(client, faults, collections, collection_name[1])
       IN  /\ collections' = r.collections
           /\ IF r.raised # None
                 THEN Caught(r.raised[1])
                 ELSE pc' = "done" /\ UNCHANGED test_result
    /\ UNCHANGED <<client, baseline_path, faults, collection_name, output_file>>
    /\ UNCHANGED <<normalizeVars, compareVars, runnerVars, reportVars, mainVars, genVars, versionVars>>

NextRunTest ==
    \/ LoadSchema
    \/ ImportSchema
    \/ ExportSchema
    \/ SaveSchema
    \/ Cleanup

SpecRunTest == InitRunTest /\ [][NextRunTest]_vars

----------------------------------------------------------------------------
(* Claims about run_test *)

DeletesSucceed == faults \cap {"exists", "delete"} = {}

\* C23: when run_test has returned and the backend's deletes succeed, the
\* collection it created is no longer in the backend.
C23_CollectionCleanedUp ==
    (pc = "done" /\ collection_name # None /\ DeletesSucceed)
    => collection_name[1] \notin collections

\* C24: the result run_test returns has success true exactly when it has an
\* exported_path and exactly when its error is None; a run that saved the
\* exported schema is a success whatever cleanup met.
C24_ResultWellFormed ==
    pc = "done" =>
        /\ test_result.success <=> test_result.exported_path # None
        /\ test_result.success <=> test_result.error = None
        /\ output_file => test_result.success

\* The delete of cleanup failed and the collection is still there.
C24_Witness ==
    /\ pc = "done"
    /\ output_file
    /\ "delete" \in faults
    /\ collection_name[1] \in collections
    /\ test_result.success
    /\ test_result.error = None

----------------------------------------------------------------------------
(* generator.SchemaGenerator.generate_schema and the calls it makes.  The
   client, the collections of the instance and the calls that raise are
   those of run_test. *)

GeneratorCalls == BackendCalls \cup {"metadata"}

SchemaPath == "schemas/P0-basic-text-only/config.json"

\* SchemaGenerator.create_collection_from_definition
create_collection_from_definition(cl, fl, cs) ==
    IF ~cl THEN Raises(cs, "Not connected to Weaviate. Call connect() first.")
    ELSE IF "exists" \in fl THEN Raises(cs, "exists failed")
    ELSE IF TestCollection \in cs /\ "delete" \in fl THEN Raises(cs, "delete failed")
    ELSE IF "create" \in fl THEN Raises(cs \ {TestCollection}, "create failed")
    ELSE Returns(cs \cup {TestCollection}, TestCollection)

\* The exception of exists or delete leaves the finally block.
cleanup_collection_unguarded(cl, fl, cs, name) ==
    IF ~cl THEN Returns(cs, None)
    ELSE IF "exists" \in fl THEN Raises(cs, "exists failed")
    ELSE IF name \in cs /\ "delete" \in fl THEN Raises(cs, "delete failed")
    ELSE Returns(cs \ {name}, None)

\* SchemaGenerator.cleanup_collection: nothing without a client; an exception
\* of exists or delete is logged and swallowed.
cleanup_collection(cl, fl, cs, name) ==
    IF ~cl THEN Returns(cs, None)
    ELSE IF "exists" \in fl THEN Returns(cs, None)
    ELSE IF name \in cs /\ "delete" \in fl THEN Returns(cs, None)
    ELSE Returns(cs \ {name}, None)

Returned(v) == [raised |-> None, value |-> Some(v)]

Propagated(msg) == [raised |-> Some(msg), value |-> None]

InitGenerate ==
    /\ pc = "create_collection"
    /\ client \in BOOLEAN
    /\ faults \in SUBSET GeneratorCalls
    /\ collections \in ExistingCollections
    /\ cleanup_requested \in BOOLEAN
    /\ collection_name = None
    /\ output_file = FALSE
    /\ generated = None
    /\ baseline_path = NoDoc
    /\ test_result = NoDoc
    /\ NormalizeIdle
    /\ CompareIdle
    /\ RunnerIdle
    /\ ReportIdle
    /\ MainIdle
    /\ VersionsIdle

\* finally: if cleanup: self.cleanup_collection(collection_name); then the
\* return or the exception of the try block goes on, unless the finally
\* block raised itself.
Finally(outcome) ==
    /\ IF cleanup_requested
          THEN LET r == cleanup_collection(client, faults, collections, collection_name[1])
               IN  /\ collections' = r.collections
                   /\ generated' = IF r.raised # None THEN Propagated(r.raised[1]) ELSE outcome
          ELSE /\ collections' = collections
               /\ generated' = outcome
    /\ pc' = "generated"

\* collection_name = self.create_collection_from_definition(definition),
\* before the try block
CreateCollection ==
    /\ pc = "create_collection"
    /\ LET r == create_collection_from_definition(client, faults, collections)
       IN  /\ collections' = r.collections
           /\ IF r.raised # None
                 THEN /\ generated' = Propagated(r.raised[1])
                      /\ pc' = "generated"
                      /\ UNCHANGED collection_name
                 ELSE /\ collection_name' = Some(r.value)
                      /\ pc' = "export_collection_schema"
                      /\ UNCHANGED generated
    /\ UNCHANGED <<client, baseline_path, faults, output_file, test_result, cleanup_requested>>
    /\ UNCHANGED <<normalizeVars, compareVars, runnerVars, reportVars, mainVars, versionVars>>

\* schema = self.export_collection_schema(collection_name)
ExportCollectionSchema ==
    /\ pc = "export_collection_schema"
    /\ IF "export" \in faults
          THEN Finally(Propagated("export failed"))
          ELSE pc' = "save_schema_to_file" /\ UNCHANGED <<collections, generated>>
    /\ UNCHANGED <<client, baseline_path, faults, collection_name, output_file, test_result,
                   cleanup_requested>>
    /\ UNCHANGED <<normalizeVars, compareVars, runnerVars, reportVars, mainVars, versionVars>>

\* self.save_schema_to_file(schema, schema_path)
SaveSchemaToFile ==
    /\ pc = "save_schema_to_file"
    /\ IF "save" \in faults
          THEN Finally(Propagated("save failed")) /\ UNCHANGED output_file
          ELSE /\ output_file' = TRUE
               /\ pc' = "save_metadata"
               /\ UNCHANGED <<collections, generated>>
    /\ UNCHANGED <<client, baseline_path, faults, collection_name, test_result, cleanup_requested>>
    /\ UNCHANGED <<normalizeVars, compareVars, runnerVars, reportVars, mainVars, versionVars>>

\* json.dump(metadata, f, indent=2); return schema_path
SaveMetadata ==
    /\ pc = "save_metadata"
    /\ IF "metadata" \in faults
          THEN Finally(Propagated("metadata failed"))
          ELSE Finally(Returned(SchemaPath))
    /\ UNCHANGED <<client, baseline_path, faults, collection_name, output_file, test_result,
                   cleanup_requested>>
    /\ UNCHANGED <<normalizeVars, compareVars, runnerVars, reportVars, mainVars, versionVars>>

NextGenerate ==
    \/ CreateCollection
    \/ ExportCollectionSchema
    \/ SaveSchemaToFile
    \/ SaveMetadata

SpecGenerate == InitGenerate /\ [][NextGenerate]_vars

----------------------------------------------------------------------------
(* Claims about generate_schema *)

\* What the try block of generate_schema ends with.
TryBlockOutcome ==
    IF "export" \in faults THEN Propagated("export failed")
    ELSE IF "save" \in faults THEN Propagated("save failed")
    ELSE IF "metadata" \in faults THEN Propagated("metadata failed")
    ELSE Returned(SchemaPath)

\* C25: once generate_schema has created its collection and is over, the
\* caller gets what the try block ended with, a path or its exception,
\* whatever the delete met; with cleanup the collection is gone when the
\* backend's deletes succeed, without cleanup it is still there.
C25_CleanupOnEveryExit ==
    (pc = "generated" /\ collection_name # None) =>
        /\ generated = TryBlockOutcome
        /\ (cleanup_requested /\ DeletesSucceed) => collection_name[1] \notin collections
        /\ ~cleanup_requested => collection_name[1] \in collections

\* The export raised and the collection was deleted on the way out.
C25_Witness ==
    /\ pc = "generated"
    /\ collection_name # None
    /\ cleanup_requested
    /\ generated = Propagated("export failed")
    /\ collection_name[1] \notin collections

----------------------------------------------------------------------------
(* version-tracking/check_versions.py *)

PackageManagers == {"pypi", "npm", "gem"}

VersionNumbers == {"4.9.0", "4.10.0"}

\* What a registry lookup returns: None after any exception, or the version
\* field of the answer, which may be the empty string.
LookupResults == {None, Some("")} \cup {Some(v) : v \in VersionNumbers}

ClientInfos ==
    [ package_manager : PackageManagers,
      package_name : {"weaviate-client"},
      current : VersionNumbers ]

\* The contents a versions file can have.
VersionsFiles ==
    {[clients |-> cs] : cs \in UNION {[C -> ClientInfos] : C \in SUBSET ClientNames}}

check_pypi_version(reg, package_name) == reg.pypi

check_npm_version(reg, package_name) == reg.npm

\* `latest is None`: the empty string passes.
IsNone(latest) == latest = None

\* `not latest`: None and the empty string
Not(latest) == latest = None \/ latest = Some("")

\* One turn of the loop of check_versions: the updates mapping after it.
CheckClient(ups, c, info, reg) ==
    IF info.package_manager \notin {"pypi", "npm"} THEN ups
    ELSE LET latest == IF info.package_manager = "pypi"
                           THEN check_pypi_version(reg, info.package_name)
                           ELSE check_npm_version(reg, info.package_name)
         IN  IF Not(latest) THEN ups
             ELSE setitem(ups, c,
                      [ current |-> info.current,
                        latest |-> latest[1],
                        update_available |-> latest[1] # info.current,
                        package_name |-> info.package_name,
                        package_manager |-> info.package_manager ])

InitVersions ==
    /\ pc = "versions_main"
    /\ versions_file \in {None} \cup {Some(f) : f \in VersionsFiles}
    /\ in_place \in BOOLEAN
    /\ output_content = None
    /\ registry \in [pypi : LookupResults, npm : LookupResults]
    /\ versions = None
    /\ versions_order = << >>
    /\ vi = 1
    /\ updates = << >>
    /\ exit_code = NoDoc
    /\ NormalizeIdle
    /\ CompareIdle
    /\ RunnerIdle
    /\ ReportIdle
    /\ TestIdle
    /\ GenerateIdle

\* if not versions_file.exists(): return 1
VersionsFileMissing ==
    /\ pc = "versions_main"
    /\ versions_file = None
    /\ exit_code' = 1
    /\ pc' = "versions_exited"
    /\ UNCHANGED versionVars
    /\ UNCHANGED <<normalizeVars, compareVars, runnerVars, reportVars, testVars, genVars>>

\* versions = json.load(f); updates = {}
LoadVersions ==
    /\ pc = "versions_main"
    /\ versions_file # None
    /\ versions' = versions_file[1]
    /\ versions_order' \in Orders(DOMAIN versions_file[1].clients)
    /\ vi' = 1
    /\ updates' = << >>
    /\ pc' = "next_version"
    /\ UNCHANGED <<versions_file, in_place, output_content, registry>>
    /\ UNCHANGED <<normalizeVars, compareVars, runnerVars, reportVars, mainVars, testVars, genVars>>

\* for client, info in versions['clients'].items(): one turn
NextVersion ==
    /\ pc = "next_version"
    /\ vi <= Len(versions_order)
    /\ updates' = CheckClient(updates, versions_order[vi],
                              versions.clients[versions_order[vi]], registry)
    /\ vi' = vi + 1
    /\ UNCHANGED <<pc, versions_file, in_place, output_content, registry, versions, versions_order>>
    /\ UNCHANGED <<normalizeVars, compareVars, runnerVars, reportVars, mainVars, testVars, genVars>>

\* datetime.utcnow().isoformat() + 'Z'
UtcNow == "2025-01-01T00:00:00Z"

\* return updates; json.dump(updated_data, f) to the output file; return 0
WriteVersions ==
    /\ pc = "next_version"
    /\ vi > Len(versions_order)
    /\ LET updated_data == [last_updated |-> UtcNow, clients |-> updates]
       IN  IF in_place
               THEN versions_file' = Some(updated_data) /\ UNCHANGED output_content
               ELSE output_content' = Some(updated_data) /\ UNCHANGED versions_file
    /\ exit_code' = 0
    /\ pc' = "versions_exited"
    /\ UNCHANGED <<in_place, registry, versions, versions_order, vi, updates>>
    /\ UNCHANGED <<normalizeVars, compareVars, runnerVars, reportVars, testVars, genVars>>

NextVersions ==
    \/ VersionsFileMissing
    \/ LoadVersions
    \/ NextVersion
    \/ WriteVersions

SpecVersions == InitVersions /\ [][NextVersions]_vars

----------------------------------------------------------------------------
(* Claims about check_versions *)

\* The file main wrote.
Written == IF in_place THEN versions_file[1] ELSE output_content[1]

\* The registry of the client's package manager gave a version.
LookupSucceeded(info) ==
    /\ info.package_manager \in {"pypi", "npm"}
    /\ registry[info.package_manager] \in {Some(v) : v \in VersionNumbers}

\* C26: the file main writes holds exactly the clients of the input file
\* whose package manager is known and whose lookup gave a version, each with
\* the `current` of the input, the version the registry gave as `latest`,
\* and update_available true exactly when the two differ.
C26_OnlySuccessfulLookupsWritten ==
    (pc = "versions_exited" /\ exit_code = 0) =>
        /\ DOMAIN Written.clients \subseteq DOMAIN versions.clients
        /\ \A c \in DOMAIN versions.clients :
              c \in DOMAIN Written.clients <=> LookupSucceeded(versions.clients[c])
        /\ \A c \in DOMAIN Written.clients :
              /\ Written.clients[c].current = versions.clients[c].current
              /\ Written.clients[c].latest
                    = registry[versions.clients[c].package_manager][1]
              /\ Written.clients[c].update_available
                    <=> Written.clients[c].latest # Written.clients[c].current

\* An in-place run that drops one client, whose lookup gave the empty
\* string, and keeps the other, which has an update.
C26_Witness ==
    /\ pc = "versions_exited"
    /\ exit_code = 0
    /\ in_place
    /\ DOMAIN versions.clients = ClientNames
    /\ \E c \in ClientNames :
          /\ c \notin DOMAIN versions_file[1].clients
          /\ versions.clients[c].package_manager \in {"pypi", "npm"}
          /\ registry[versions.clients[c].package_manager] = Some("")
    /\ \E c \in DOMAIN versions_file[1].clients :
          versions_file[1].clients[c].update_available

====
